---- MODULE Spec2Model ----
(***************************************************************************)
(* A model of parts of the blockifier crate:                               *)
(*                                                                         *)
(*   - concurrency/versioned_storage.rs: VersionedStorage, a map from a    *)
(*     cell to its write history (version -> value) with a base-value      *)
(*     read callback;                                                      *)
(*   - transaction/account_transaction.rs: execute_raw, the pipeline that  *)
(*     checks version, nonce and balance, validates, executes (with        *)
(*     revert), accounts resources and charges the fee.                    *)
(*                                                                         *)
(* and of concurrency/versioned_state.rs: VersionedState, four             *)
(* VersionedStorages behind one read and one write keyed by a storage      *)
(* kind.                                                                   *)
(*                                                                         *)
(* The parts share no state in the source.  SpecStorage runs one           *)
(* VersionedStorage, SpecPipeline (SpecPipelineFair with fairness) runs    *)
(* one execute_raw, SpecVersionedState runs one VersionedState; in each    *)
(* the variables of the other parts are idle.                              *)
(***************************************************************************)
EXTENDS Integers, Sequences, FiniteSets, TLC

(***************************************************************************)
(* Bounds of the model.                                                    *)
(***************************************************************************)
MaxVersion == 2
MaxTxVersion == 3
MaxNonce == 1
MaxFee == 2
MaxSteps == 2

\* Cell ids and written values are uninterpreted data: two of each.
Cells == {"cell_a", "cell_b"}
Values == {1, 2}
Versions == 0..MaxVersion

Max(S) == CHOOSE x \in S : \A y \in S : y <= x

VARIABLES
    \* VersionedStorage
    writes,            \* HashMap<K, BTreeMap<Version, V>>
    base_value,        \* what base_value_read_callback returns for each cell
    written,           \* history: Some(the value last passed to write(cell, version, _))
    op,                \* the last call on the storage and its outcome (for a
                       \* write, the value its entry held before)
    \* execute_raw
    tx,                \* self: the AccountTransaction
    state,             \* state: the TransactionalState execute_raw works on
    pc,                \* the position in execute_raw
    context,           \* context.account_tx_context, None before line 365
    max_steps,         \* let max_steps (line 368)
    execution_state,   \* run_or_revert's overlay (a CachedState), None before it
    execute_result,    \* what run_execute returned, None before it
    call_infos,        \* ValidateExecuteCallInfo
    actual_resources,  \* let mut actual_resources (line 382), None before it
    fee,               \* (actual_fee, fee_transfer_call_info), None before line 409
    result,            \* what execute_raw returned, None while it runs
    calls,             \* history: the state accesses and executor calls so far,
                       \* with what the executor returned to validate and transfer
    snapshot,          \* history: `state` at the start and as validate left it
    \* VersionedState
    versioned_state,   \* the `writes` of the four VersionedStorages
    dispatch,          \* the last call on the VersionedState and its outcome
    \* BlockContext
    block_context,     \* the fee-related fields of the BlockContext
    has_version,       \* the &dyn HasRelatedFeeType the selections are made for
    selected           \* what fee_token_address and get_for_version returned

storageVars == <<writes, base_value, written, op>>
pipelineVars == <<tx, state, pc, context, max_steps, execution_state,
                  execute_result, call_infos, actual_resources, fee, result,
                  calls, snapshot>>

dispatcherVars == <<versioned_state, dispatch>>

blockContextVars == <<block_context, has_version, selected>>

vars == <<storageVars, pipelineVars, dispatcherVars, blockContextVars>>

\* Option<T>
None == [some |-> FALSE]
Some(x) == [some |-> TRUE, value |-> x]

\* No VersionedState is in use.
DispatcherIdle == versioned_state = None /\ dispatch = None

\* No BlockContext is in use.
BlockContextIdle == block_context = None /\ has_version = None /\ selected = None

\* No execute_raw is running (the storage is modelled on its own).
PipelineIdle ==
    /\ tx = None /\ state = None /\ pc = "idle" /\ context = None
    /\ max_steps = 0 /\ execution_state = None /\ execute_result = None
    /\ call_infos = None /\ actual_resources = None /\ fee = None
    /\ result = None /\ calls = << >> /\ snapshot = None

(***************************************************************************)
(* VersionedStorage                                                        *)
(***************************************************************************)

\* An outcome of a call: a returned value or a panic of the thread.
Returned(x) == [kind |-> "value", value |-> x]
Panicked(why) == [kind |-> "panic", why |-> why]

\* StateResult<V> of the base-value callback.  A base value is 0, apart from
\* every value the model writes (1..MaxValue).
Ok(x) == [ok |-> TRUE, value |-> x]
Err(e) == [ok |-> FALSE, error |-> e]
BaseResults == {Ok(0), Err("StateError")}

\* range over every version of the map, whatever `version` is.
RangeToInclusive_Unbounded(writes_map, version) == DOMAIN writes_map

\* BTreeMap::range(..=version): the versions of the map up to `version`.
RangeToInclusive(writes_map, version) == {u \in DOMAIN writes_map : u <= version}

\* VersionedStorage::new
NewWrites == << >>

\* read with range(..version) in place of range(..=version).
read_ExclusiveRange(w, base, cell_id, version) ==
    IF cell_id \notin DOMAIN w
    THEN Panicked("key not found")
    ELSE LET range == {u \in DOMAIN w[cell_id] : u < version} IN
         IF range # {}
         THEN Returned(w[cell_id][Max(range)])
         ELSE IF ~base[cell_id].ok
              THEN Panicked("Base value read callback returned an error")
              ELSE Returned(base[cell_id].value)

\* VersionedStorage::read.  HashMap's Index panics on a key that is not in
\* the map; the callback's Err panics in expect().
read(w, base, cell_id, version) ==
    IF cell_id \notin DOMAIN w
    THEN Panicked("key not found")
    ELSE LET range == RangeToInclusive(w[cell_id], version) IN
         IF range # {}
         THEN Returned(w[cell_id][Max(range)])
         ELSE IF ~base[cell_id].ok
              THEN Panicked("Base value read callback returned an error")
              ELSE Returned(base[cell_id].value)

\* VersionedStorage::read, the None arm (lines 35-39): whether the read
\* invokes base_value_read_callback.
callback_invoked(w, cell_id, version) ==
    /\ cell_id \in DOMAIN w
    /\ RangeToInclusive(w[cell_id], version) = {}

\* BTreeInsert that keeps the value of an entry that exists.
BTreeInsert_KeepsFirst(writes_map, version, value) ==
    [u \in DOMAIN writes_map \cup {version} |->
        IF u \in DOMAIN writes_map THEN writes_map[u] ELSE value]

\* BTreeMap::insert: the entry of `version` is added or replaced.
BTreeInsert(writes_map, version, value) ==
    [u \in DOMAIN writes_map \cup {version} |->
        IF u = version THEN value ELSE writes_map[u]]

\* What BTreeMap::insert returns (write drops it): the value the entry held.
BTreeInsertReturns(w, cell_id, version) ==
    IF cell_id \in DOMAIN w /\ version \in DOMAIN w[cell_id]
    THEN Some(w[cell_id][version])
    ELSE None

\* write that also drops the cell's entries above `version`.
write_DropsLaterVersions(w, cell_id, version, value) ==
    LET writes_map == IF cell_id \in DOMAIN w THEN w[cell_id] ELSE << >>
        kept == [u \in {u \in DOMAIN writes_map : u <= version} |-> writes_map[u]]
    IN  [c \in DOMAIN w \cup {cell_id} |->
            IF c = cell_id THEN BTreeInsert(kept, version, value) ELSE w[c]]

\* VersionedStorage::write: entry(cell_id).or_insert_with(BTreeMap::new), insert.
write(w, cell_id, version, value) ==
    LET writes_map == IF cell_id \in DOMAIN w THEN w[cell_id] ELSE << >> IN
    [c \in DOMAIN w \cup {cell_id} |->
        IF c = cell_id THEN BTreeInsert(writes_map, version, value) ELSE w[c]]

InitStorage ==
    /\ PipelineIdle
    /\ DispatcherIdle
    /\ BlockContextIdle
    /\ writes = NewWrites
    /\ base_value \in [Cells -> BaseResults]
    /\ written = [c \in Cells |-> [v \in Versions |-> None]]
    /\ op = [kind |-> "new"]

Read ==
    \E cell_id \in Cells, version \in Versions :
        /\ op' = [kind |-> "read", cell |-> cell_id, version |-> version,
                  outcome |-> read(writes, base_value, cell_id, version),
                  callback_invoked |-> callback_invoked(writes, cell_id, version)]
        /\ UNCHANGED <<writes, base_value, written>>
        /\ UNCHANGED <<pipelineVars, dispatcherVars, blockContextVars>>

Write ==
    \E cell_id \in Cells, version \in Versions, value \in Values :
        /\ writes' = write(writes, cell_id, version, value)
        /\ written' = [written EXCEPT ![cell_id][version] = Some(value)]
        /\ op' = [kind |-> "write", cell |-> cell_id, version |-> version,
                  value |-> value,
                  previous |-> BTreeInsertReturns(writes, cell_id, version)]
        /\ UNCHANGED base_value
        /\ UNCHANGED <<pipelineVars, dispatcherVars, blockContextVars>>

NextStorage == Read \/ Write

SpecStorage == InitStorage /\ [][NextStorage]_vars

(***************************************************************************)
(* AccountTransaction::execute_raw                                         *)
(*                                                                         *)
(* The state capability (get_nonce_at, increment_nonce,                    *)
(* get_fee_token_balance) is an in-memory state whose reads are total.     *)
(* The call executor (CallEntryPoint::execute, run_execute) is opaque: it  *)
(* may write any storage keys into the state it is given, and return a     *)
(* trace or an error.                                                      *)
(***************************************************************************)

\* No VersionedStorage is in use (the pipeline is modelled on its own).
StorageIdle ==
    /\ writes = NewWrites
    /\ base_value = [c \in Cells |-> Ok(0)]
    /\ written = [c \in Cells |-> [v \in Versions |-> None]]
    /\ op = [kind |-> "new"]

\* Storage keys a call may write, and who wrote a key's value last.
Keys == {"k1", "k2"}
Unwritten == [k \in Keys |-> "initial"]

\* Addresses an account transaction may carry.
Addresses == {"account", "other_account"}
SequencerAddress == "sequencer"
FeeTokenAddress == "fee_token"

\* enum AccountTransaction.  An InvokeTransaction is a V0 or a V1 and carries
\* no version field; a DeployAccountTransaction carries the address of the
\* contract it deploys and no sender.
Transactions ==
    [kind : {"Declare"}, version : 0..MaxTxVersion,
     nonce : 0..MaxNonce, max_fee : 0..MaxFee, sender_address : Addresses]
    \cup
    [kind : {"DeployAccount"}, version : 0..MaxTxVersion,
     nonce : 0..MaxNonce, max_fee : 0..MaxFee, contract_address : Addresses]
    \cup
    [kind : {"Invoke"}, variant : {"V0", "V1"},
     nonce : 0..MaxNonce, max_fee : 0..MaxFee, sender_address : Addresses]

States ==
    [nonce : 0..MaxNonce, balance_low : 0..MaxFee, balance_high : {0, 1},
     storage : {Unwritten}]

\* get_account_transaction_context giving every InvokeTransaction version 1.
get_account_transaction_context_InvokeAlwaysV1(t) ==
    [max_fee |-> t.max_fee,
     version |-> IF t.kind = "Invoke" THEN 1 ELSE t.version,
     nonce |-> t.nonce,
     sender_address |-> IF t.kind = "DeployAccount" THEN t.contract_address
                        ELSE t.sender_address]

\* AccountTransaction::get_account_transaction_context
get_account_transaction_context(t) ==
    CASE t.kind = "Declare" ->
            [max_fee |-> t.max_fee,
             version |-> t.version,
             nonce |-> t.nonce,
             sender_address |-> t.sender_address]
      [] t.kind = "DeployAccount" ->
            [max_fee |-> t.max_fee,
             version |-> t.version,
             nonce |-> t.nonce,
             sender_address |-> t.contract_address]
      [] t.kind = "Invoke" ->
            [max_fee |-> t.max_fee,
             version |-> IF t.variant = "V0" THEN 0 ELSE 1,
             nonce |-> t.nonce,
             sender_address |-> t.sender_address]

\* allowed_versions with version 0 allowed for every kind.
allowed_versions_ZeroForAll(t) ==
    CASE t.kind = "Declare" -> {0, 1, 2}
      [] t.kind = "Invoke" -> {0, 1}
      [] OTHER -> {0, 1}

\* The allowed_versions of verify_tx_version (lines 132-148).
allowed_versions(t) ==
    CASE t.kind = "Declare" -> {0, 1, 2}
      [] t.kind = "Invoke" -> {0, 1}
      [] OTHER -> {1}

\* AccountTransaction::verify_tx_version
verify_tx_version(t, version) ==
    IF version \in allowed_versions(t)
    THEN Ok("unit")
    ELSE Err([error |-> "InvalidVersion", version |-> version,
              allowed_versions |-> allowed_versions(t)])

\* An entry of `calls`: a call on the state capability.
StateAccess(name) == [access |-> name]

\* handle_nonce with the nonce incremented before it is compared.
handle_nonce_IncrementsFirst(account_tx_context, st) ==
    IF account_tx_context.version = 0
    THEN [res |-> Ok("unit"), state |-> st, log |-> << >>]
    ELSE LET address == account_tx_context.sender_address
             current_nonce == st.nonce
             incremented == [st EXCEPT !.nonce = @ + 1]
         IN  IF current_nonce # account_tx_context.nonce
             THEN [res |-> Err([error |-> "InvalidNonce", address |-> address,
                                expected_nonce |-> current_nonce,
                                actual_nonce |-> account_tx_context.nonce]),
                   state |-> incremented,
                   log |-> <<StateAccess("get_nonce_at"),
                             StateAccess("increment_nonce")>>]
             ELSE [res |-> Ok("unit"),
                   state |-> incremented,
                   log |-> <<StateAccess("get_nonce_at"),
                             StateAccess("increment_nonce")>>]

\* AccountTransaction::handle_nonce: the result, the state it leaves and the
\* state accesses it made.
handle_nonce(account_tx_context, st) ==
    IF account_tx_context.version = 0
    THEN [res |-> Ok("unit"), state |-> st, log |-> << >>]
    ELSE LET address == account_tx_context.sender_address
             current_nonce == st.nonce
         IN  IF current_nonce # account_tx_context.nonce
             THEN [res |-> Err([error |-> "InvalidNonce", address |-> address,
                                expected_nonce |-> current_nonce,
                                actual_nonce |-> account_tx_context.nonce]),
                   state |-> st,
                   log |-> <<StateAccess("get_nonce_at")>>]
             ELSE [res |-> Ok("unit"),
                   state |-> [st EXCEPT !.nonce = @ + 1],
                   log |-> <<StateAccess("get_nonce_at"),
                             StateAccess("increment_nonce")>>]

\* AccountTransaction::enforce_fee
enforce_fee(t) == t.max_fee # 0

\* check_fee_balance comparing the low word whatever the high word is.
check_fee_balance_IgnoresHighWord(t, account_tx_context, st) ==
    IF enforce_fee(t)
    THEN LET balance_low == st.balance_low
             balance_high == st.balance_high
         IN  [res |-> IF balance_low < account_tx_context.max_fee
                      THEN Err([error |-> "MaxFeeExceedsBalance",
                                max_fee |-> account_tx_context.max_fee,
                                balance_low |-> balance_low,
                                balance_high |-> balance_high])
                      ELSE Ok("unit"),
              log |-> <<StateAccess("get_fee_token_balance")>>]
    ELSE [res |-> Ok("unit"), log |-> << >>]

\* The balance check of handle_nonce_and_check_fee_balance (lines 225-244).
check_fee_balance(t, account_tx_context, st) ==
    IF enforce_fee(t)
    THEN LET balance_low == st.balance_low
             balance_high == st.balance_high
         IN  [res |-> IF balance_high = 0 /\ balance_low < account_tx_context.max_fee
                      THEN Err([error |-> "MaxFeeExceedsBalance",
                                max_fee |-> account_tx_context.max_fee,
                                balance_low |-> balance_low,
                                balance_high |-> balance_high])
                      ELSE Ok("unit"),
              log |-> <<StateAccess("get_fee_token_balance")>>]
    ELSE [res |-> Ok("unit"), log |-> << >>]

\* handle_nonce_and_check_fee_balance with the nonce increment undone when
\* the balance check rejects.
handle_nonce_and_check_fee_balance_RollsBack(t, account_tx_context, st) ==
    LET nonce == handle_nonce(account_tx_context, st) IN
    IF ~nonce.res.ok
    THEN nonce
    ELSE LET balance == check_fee_balance(t, account_tx_context, nonce.state) IN
         [res |-> balance.res,
          state |-> IF balance.res.ok THEN nonce.state ELSE st,
          log |-> nonce.log \o balance.log]

\* handle_nonce_and_check_fee_balance checking the balance before the nonce.
handle_nonce_and_check_fee_balance_BalanceFirst(t, account_tx_context, st) ==
    LET balance == check_fee_balance(t, account_tx_context, st) IN
    IF ~balance.res.ok
    THEN [res |-> balance.res, state |-> st, log |-> balance.log]
    ELSE LET nonce == handle_nonce(account_tx_context, st) IN
         [res |-> nonce.res, state |-> nonce.state,
          log |-> balance.log \o nonce.log]

\* AccountTransaction::handle_nonce_and_check_fee_balance
handle_nonce_and_check_fee_balance(t, account_tx_context, st) ==
    LET nonce == handle_nonce(account_tx_context, st) IN
    IF ~nonce.res.ok
    THEN nonce
    ELSE LET balance == check_fee_balance(t, account_tx_context, nonce.state) IN
         [res |-> balance.res, state |-> nonce.state,
          log |-> nonce.log \o balance.log]

\* ExecutionContext::max_steps: the block context's step limit.
context_max_steps == MaxSteps

NoCallInfos ==
    [validate_call_info |-> None, execute_call_info |-> None, revert_data |-> None]

InitPipeline ==
    /\ StorageIdle
    /\ DispatcherIdle
    /\ BlockContextIdle
    /\ tx \in Transactions
    /\ state \in States
    /\ pc = "start"
    /\ context = None
    /\ max_steps = 0
    /\ execution_state = None
    /\ execute_result = None
    /\ call_infos = NoCallInfos
    /\ actual_resources = None
    /\ fee = None
    /\ result = None
    /\ calls = << >>
    /\ snapshot = [initial |-> state, validated |-> None]

\* execute_raw that never returns to its caller.
Return_NeverReturns(res) ==
    /\ pc' = "returning"
    /\ result' = res

\* execute_raw returns `res`.
Return(res) ==
    /\ pc' = "done"
    /\ result' = res

\* execute_raw, lines 365-368: the context, the version check, max_steps.
VerifyTxVersion ==
    /\ pc = "start"
    /\ LET account_tx_context == get_account_transaction_context(tx)
           verified == verify_tx_version(tx, account_tx_context.version)
       IN  /\ context' = account_tx_context
           /\ IF verified.ok
              THEN /\ max_steps' = context_max_steps
                   /\ pc' = "handle_nonce_and_check_fee_balance"
                   /\ UNCHANGED result
              ELSE /\ Return(verified)
                   /\ UNCHANGED max_steps
    /\ UNCHANGED <<tx, state, execution_state, execute_result, call_infos,
                   actual_resources, fee, calls, snapshot>>
    /\ UNCHANGED <<storageVars, dispatcherVars, blockContextVars>>

\* execute_raw, line 371.
HandleNonceAndCheckFeeBalance ==
    /\ pc = "handle_nonce_and_check_fee_balance"
    /\ LET checked == handle_nonce_and_check_fee_balance(tx, context, state) IN
       /\ state' = checked.state
       /\ calls' = calls \o checked.log
       /\ IF checked.res.ok
          THEN /\ pc' = "run_or_revert"
               /\ UNCHANGED result
          ELSE Return(checked.res)
    /\ UNCHANGED <<tx, context, max_steps, execution_state, execute_result,
                   call_infos, actual_resources, fee, snapshot>>
    /\ UNCHANGED <<storageVars, dispatcherVars, blockContextVars>>

\* What the opaque call executor may do with one call: the keys it writes
\* into the state it is given, and the trace or the error it returns.
Budgets == {None} \cup {Some(r) : r \in 0..MaxSteps}
CallSuccesses ==
    [ok : {TRUE}, n_steps : 1..MaxSteps, written : SUBSET Keys,
     inner_call_to_other_contract : BOOLEAN]
CallFailures ==
    [ok : {FALSE}, written : SUBSET Keys, remaining_resources : Budgets]
CallOutcomes == CallSuccesses \cup CallFailures

\* run_execute returns Option<CallInfo>: a success may carry no trace
\* (n_steps = 0 stands for Ok(None)).  Only validate's inner calls are looked
\* at by the pipeline, so the other calls' are not enumerated.
ExecuteOutcomes ==
    [ok : {TRUE}, n_steps : 0..MaxSteps, written : SUBSET Keys,
     inner_call_to_other_contract : {FALSE}]
    \cup CallFailures
TransferOutcomes ==
    [ok : {TRUE}, n_steps : 1..MaxSteps, written : SUBSET Keys,
     inner_call_to_other_contract : {FALSE}]
    \cup CallFailures

\* struct CallEntryPoint, as far as the pipeline sets it.
CallEntryPoint(selector, storage_address, caller_address, calldata) ==
    [entry_point_selector |-> selector, storage_address |-> storage_address,
     caller_address |-> caller_address, calldata |-> calldata]

\* struct CallInfo: the call, its steps and whether it called another contract.
CallInfo(call, outcome) ==
    [call |-> call, n_steps |-> outcome.n_steps,
     inner_call_to_other_contract |-> outcome.inner_call_to_other_contract]

\* The writes of a call land in the state it was given.
WriteKeys(storage, keys, writer) ==
    [k \in Keys |-> IF k \in keys THEN writer ELSE storage[k]]

\* CachedState::new(MutRefState::new(state)): an overlay with an empty cache.
\* `ended` records how the overlay was consumed: by abort() or by commit().
NewCachedState == [cache |-> << >>, ended |-> "no"]

\* A write into the overlay stays in its cache.
CacheKeys(cached, keys, writer) ==
    [cached EXCEPT !.cache =
        [k \in DOMAIN cached.cache \cup keys |->
            IF k \in keys THEN writer ELSE cached.cache[k]]]

\* CachedState::commit: the cache is written to the state under it.
commit(st, cached) ==
    [st EXCEPT !.storage =
        [k \in Keys |-> IF k \in DOMAIN cached.cache
                        THEN cached.cache[k] ELSE st.storage[k]]]

\* CachedState::abort: the cache is dropped.
abort(st, cached) == st

\* AccountTransaction::validate_entry_point_selector
validate_entry_point_selector(t) ==
    CASE t.kind = "Declare" -> "__validate_declare__"
      [] t.kind = "DeployAccount" -> "__validate_deploy__"
      [] OTHER -> "__validate__"

\* transaction_utils::verify_no_calls_to_other_contracts
verify_no_calls_to_other_contracts(call_info) ==
    IF call_info.inner_call_to_other_contract
    THEN Err([error |-> "UnauthorizedInnerCall"])
    ELSE Ok("unit")

\* validate_tx without the early return for version 0.
validate_tx_ValidatesVersionZero(t, account_tx_context, st, outcome) ==
    LET storage_address == account_tx_context.sender_address
        validate_call ==
            CallEntryPoint(validate_entry_point_selector(t),
                           storage_address, "default", "validate_calldata")
        after == [st EXCEPT !.storage = WriteKeys(@, outcome.written, "validate")]
        log == <<[call |-> validate_call, on |-> "state", returned |-> outcome]>>
    IN  IF ~outcome.ok
        THEN [res |-> Err([error |-> "ValidateTransactionError"]),
              state |-> after, log |-> log]
        ELSE LET validate_call_info == CallInfo(validate_call, outcome)
                 verified == verify_no_calls_to_other_contracts(validate_call_info)
             IN  [res |-> IF verified.ok
                          THEN Ok(Some(validate_call_info))
                          ELSE verified,
                  state |-> after, log |-> log]

\* validate_tx without verify_no_calls_to_other_contracts.
validate_tx_IgnoresInnerCalls(t, account_tx_context, st, outcome) ==
    IF account_tx_context.version = 0
    THEN [res |-> Ok(None), state |-> st, log |-> << >>]
    ELSE LET storage_address == account_tx_context.sender_address
             validate_call ==
                 CallEntryPoint(validate_entry_point_selector(t),
                                storage_address, "default", "validate_calldata")
             after == [st EXCEPT !.storage =
                          WriteKeys(@, outcome.written, "validate")]
             log == <<[call |-> validate_call, on |-> "state", returned |-> outcome]>>
         IN  IF ~outcome.ok
             THEN [res |-> Err([error |-> "ValidateTransactionError"]),
                   state |-> after, log |-> log]
             ELSE [res |-> Ok(Some(CallInfo(validate_call, outcome))),
                   state |-> after, log |-> log]

\* AccountTransaction::validate_tx, the executor doing `outcome`.
validate_tx(t, account_tx_context, st, outcome) ==
    IF account_tx_context.version = 0
    THEN [res |-> Ok(None), state |-> st, log |-> << >>]
    ELSE LET storage_address == account_tx_context.sender_address
             validate_call ==
                 CallEntryPoint(validate_entry_point_selector(t),
                                storage_address, "default", "validate_calldata")
             after == [st EXCEPT !.storage =
                          WriteKeys(@, outcome.written, "validate")]
             log == <<[call |-> validate_call, on |-> "state", returned |-> outcome]>>
         IN  IF ~outcome.ok
             THEN [res |-> Err([error |-> "ValidateTransactionError"]),
                   state |-> after, log |-> log]
             ELSE LET validate_call_info == CallInfo(validate_call, outcome)
                      verified == verify_no_calls_to_other_contracts(validate_call_info)
                  IN  [res |-> IF verified.ok
                               THEN Ok(Some(validate_call_info))
                               ELSE verified,
                       state |-> after, log |-> log]

\* run_execute, the executor doing `outcome`: Ok(None), Ok(Some(trace)) or
\* an error that may carry the remaining run resources.
run_execute(t, outcome) ==
    LET execute_call ==
            CallEntryPoint("__execute__",
                           get_account_transaction_context(t).sender_address,
                           "default",
                           "execute_calldata")
    IN  IF ~outcome.ok
        THEN Err([error |-> "ExecutionError",
                  remaining_resources |-> outcome.remaining_resources])
        ELSE IF outcome.n_steps = 0
             THEN Ok(None)
             ELSE Ok(Some(CallInfo(execute_call, outcome)))

\* ExecutionContext::error_trace
error_trace == "execution error trace"

\* run_or_revert_state with the Ok arm aborting the overlay too.
run_or_revert_state_AlwaysAborts(res, st, cached) == abort(st, cached)

\* run_or_revert_state with the Err arm committing the overlay too.
run_or_revert_state_AlwaysCommits(res, st, cached) == commit(st, cached)

\* run_or_revert, lines 335-348: the state under the overlay once the match
\* on run_execute's result has aborted or committed the overlay.
run_or_revert_state(res, st, cached) ==
    IF res.ok THEN commit(st, cached) ELSE abort(st, cached)

\* run_or_revert_call_info with the error's remaining resources left out of
\* the RevertData.
run_or_revert_call_info_DropsRemaining(res, validate_call_info) ==
    IF res.ok
    THEN [validate_call_info |-> validate_call_info,
          execute_call_info |-> res.value,
          revert_data |-> None]
    ELSE [validate_call_info |-> validate_call_info,
          execute_call_info |-> None,
          revert_data |-> Some([revert_error |-> error_trace,
                                remaining_resources |-> None])]

\* run_or_revert_call_info with the Err arm keeping a trace of the failed
\* execution.
run_or_revert_call_info_KeepsFailedTrace(res, validate_call_info) ==
    IF res.ok
    THEN [validate_call_info |-> validate_call_info,
          execute_call_info |-> res.value,
          revert_data |-> None]
    ELSE [validate_call_info |-> validate_call_info,
          execute_call_info |-> Some([call |-> "failed execution", n_steps |-> 0,
                                      inner_call_to_other_contract |-> FALSE]),
          revert_data |-> Some([revert_error |-> error_trace,
                                remaining_resources |-> res.error.remaining_resources])]

\* run_or_revert, lines 336-354: the ValidateExecuteCallInfo it returns.
run_or_revert_call_info(res, validate_call_info) ==
    IF res.ok
    THEN [validate_call_info |-> validate_call_info,
          execute_call_info |-> res.value,
          revert_data |-> None]
    ELSE [validate_call_info |-> validate_call_info,
          execute_call_info |-> None,
          revert_data |-> Some([revert_error |-> error_trace,
                                remaining_resources |-> res.error.remaining_resources])]

\* DeployAccountExecute with a failed execution recorded as a revert.
DeployAccountExecute_RevertsOnFailure ==
    /\ pc = "run_or_revert"
    /\ tx.kind = "DeployAccount"
    /\ \E outcome \in ExecuteOutcomes :
         LET res == run_execute(tx, outcome) IN
         /\ state' = [state EXCEPT !.storage = WriteKeys(@, outcome.written, "execute")]
         /\ calls' = Append(calls, [call |-> [entry_point_selector |-> "run_execute"], on |-> "state"])
         /\ execute_result' = res
         /\ IF res.ok
            THEN /\ pc' = "deploy_account_validate"
                 /\ UNCHANGED call_infos
            ELSE /\ pc' = "calculate_tx_resources"
                 /\ call_infos' = run_or_revert_call_info(res, None)
    /\ UNCHANGED <<tx, context, max_steps, execution_state, result,
                   actual_resources, fee, snapshot>>
    /\ UNCHANGED <<storageVars, dispatcherVars, blockContextVars>>

\* run_or_revert, line 324: a DeployAccount executes on the state itself.
DeployAccountExecute ==
    /\ pc = "run_or_revert"
    /\ tx.kind = "DeployAccount"
    /\ \E outcome \in ExecuteOutcomes :
         LET res == run_execute(tx, outcome) IN
         /\ state' = [state EXCEPT !.storage = WriteKeys(@, outcome.written, "execute")]
         /\ calls' = Append(calls, [call |-> [entry_point_selector |-> "run_execute"], on |-> "state"])
         /\ execute_result' = res
         /\ IF res.ok
            THEN /\ pc' = "deploy_account_validate"
                 /\ UNCHANGED result
            ELSE Return(Err([error |-> "ExecutionError"]))
    /\ UNCHANGED <<tx, context, max_steps, execution_state, call_infos,
                   actual_resources, fee, snapshot>>
    /\ UNCHANGED <<storageVars, dispatcherVars, blockContextVars>>

\* run_or_revert, lines 325-329: a DeployAccount validates after it executed.
DeployAccountValidate ==
    /\ pc = "deploy_account_validate"
    /\ \E outcome \in CallOutcomes :
         LET validated == validate_tx(tx, context, state, outcome) IN
         /\ state' = validated.state
         /\ calls' = calls \o validated.log
         /\ IF validated.res.ok
            THEN /\ call_infos' = [validate_call_info |-> validated.res.value,
                                   execute_call_info |-> execute_result.value,
                                   revert_data |-> None]
                 /\ pc' = "calculate_tx_resources"
                 /\ UNCHANGED result
            ELSE /\ Return(validated.res)
                 /\ UNCHANGED call_infos
    /\ UNCHANGED <<tx, context, max_steps, execution_state, execute_result,
                   actual_resources, fee, snapshot>>
    /\ UNCHANGED <<storageVars, dispatcherVars, blockContextVars>>

\* run_or_revert, line 333: validation, on the state itself.
ValidateTx ==
    /\ pc = "run_or_revert"
    /\ tx.kind # "DeployAccount"
    /\ \E outcome \in CallOutcomes :
         LET validated == validate_tx(tx, context, state, outcome) IN
         /\ state' = validated.state
         /\ calls' = calls \o validated.log
         /\ IF validated.res.ok
            THEN /\ call_infos' = [call_infos EXCEPT
                                      !.validate_call_info = validated.res.value]
                 /\ snapshot' = [snapshot EXCEPT !.validated = Some(validated.state)]
                 /\ pc' = "run_execute"
                 /\ UNCHANGED result
            ELSE /\ Return(validated.res)
                 /\ UNCHANGED <<call_infos, snapshot>>
    /\ UNCHANGED <<tx, context, max_steps, execution_state, execute_result,
                   actual_resources, fee>>
    /\ UNCHANGED <<storageVars, dispatcherVars, blockContextVars>>

\* run_or_revert, lines 334-335: execution, on an overlay of the state.
RunExecute ==
    /\ pc = "run_execute"
    /\ \E outcome \in ExecuteOutcomes :
         /\ execution_state' = CacheKeys(NewCachedState, outcome.written, "execute")
         /\ execute_result' = run_execute(tx, outcome)
         /\ calls' = Append(calls, [call |-> [entry_point_selector |-> "run_execute"],
                                 on |-> "execution_state"])
    /\ pc' = "match_run_execute"
    /\ UNCHANGED <<tx, state, context, max_steps, call_infos, actual_resources,
                   fee, result, snapshot>>
    /\ UNCHANGED <<storageVars, dispatcherVars, blockContextVars>>

\* run_or_revert, lines 336-346: the Err arm aborts the overlay.
RevertExecute ==
    /\ pc = "match_run_execute"
    /\ ~execute_result.ok
    /\ state' = run_or_revert_state(execute_result, state, execution_state)
    /\ execution_state' = [execution_state EXCEPT !.ended = "abort"]
    /\ call_infos' = run_or_revert_call_info(execute_result, call_infos.validate_call_info)
    /\ calls' = Append(calls, [overlay |-> "abort"])
    /\ pc' = "calculate_tx_resources"
    /\ UNCHANGED <<tx, context, max_steps, execute_result, actual_resources,
                   fee, result, snapshot>>
    /\ UNCHANGED <<storageVars, dispatcherVars, blockContextVars>>

\* run_or_revert, lines 347-354: the Ok arm commits the overlay.
CommitExecute ==
    /\ pc = "match_run_execute"
    /\ execute_result.ok
    /\ state' = run_or_revert_state(execute_result, state, execution_state)
    /\ execution_state' = [execution_state EXCEPT !.ended = "commit"]
    /\ call_infos' = run_or_revert_call_info(execute_result, call_infos.validate_call_info)
    /\ calls' = Append(calls, [overlay |-> "commit"])
    /\ pc' = "calculate_tx_resources"
    /\ UNCHANGED <<tx, context, max_steps, execute_result, actual_resources,
                   fee, result, snapshot>>
    /\ UNCHANGED <<storageVars, dispatcherVars, blockContextVars>>

\* The steps of an optional trace.
StepsOf(call_info) == IF call_info.some THEN call_info.value.n_steps ELSE 0

\* N_STEPS_RESOURCE
N_STEPS_RESOURCE == "n_steps"

\* transaction_utils::calculate_tx_resources: the resources of the traces
\* that exist, summed.
calculate_tx_resources(validate_call_info, execute_call_info) ==
    [r \in {N_STEPS_RESOURCE} |-> StepsOf(validate_call_info) + StepsOf(execute_call_info)]

\* HashMap::get(..).unwrap_or(&0)
GetOrZero(resources, name) ==
    IF name \in DOMAIN resources THEN resources[name] ELSE 0

\* HashMap::insert
InsertResource(resources, name, amount) ==
    [r \in DOMAIN resources \cup {name} |->
        IF r = name THEN amount ELSE resources[r]]

\* add_revert_steps with the consumed steps replacing the steps accounted so
\* far instead of being added to them.
add_revert_steps_Overwrites(resources, revert_data, execute_call_info, steps_budget) ==
    IF revert_data.some /\ revert_data.value.remaining_resources.some
    THEN IF execute_call_info.some
         THEN Panicked("Reverted transaction cannot contain non-trivial execution call info")
         ELSE LET remaining_resources == revert_data.value.remaining_resources.value
                  execution_steps_consumed == steps_budget - remaining_resources
              IN  Returned(InsertResource(resources, N_STEPS_RESOURCE,
                                          execution_steps_consumed))
    ELSE Returned(resources)

\* execute_raw, lines 389-404: the steps of a reverted execution are added.
add_revert_steps(resources, revert_data, execute_call_info, steps_budget) ==
    IF revert_data.some /\ revert_data.value.remaining_resources.some
    THEN IF execute_call_info.some
         THEN Panicked("Reverted transaction cannot contain non-trivial execution call info")
         ELSE LET remaining_resources == revert_data.value.remaining_resources.value
                  execution_steps_consumed == steps_budget - remaining_resources
              IN  Returned(InsertResource(resources, N_STEPS_RESOURCE,
                      GetOrZero(resources, N_STEPS_RESOURCE) + execution_steps_consumed))
    ELSE Returned(resources)

\* fee_utils::calculate_tx_fee: a fee that grows with the resources (one unit
\* of fee per step).
calculate_tx_fee(resources) == GetOrZero(resources, N_STEPS_RESOURCE)

\* execute_fee_transfer without the check of actual_fee against max_fee.
execute_fee_transfer_NoMaxFeeCheck(account_tx_context, actual_fee, st, outcome) ==
    LET lsb_amount == actual_fee
        msb_amount == 0
        fee_transfer_call ==
            CallEntryPoint("transfer", FeeTokenAddress,
                           account_tx_context.sender_address,
                           <<SequencerAddress, lsb_amount, msb_amount>>)
        after == [st EXCEPT !.storage = WriteKeys(@, outcome.written, "transfer")]
        log == <<[call |-> fee_transfer_call, on |-> "state",
                  returned |-> outcome]>>
    IN  IF outcome.ok
        THEN [res |-> Ok(CallInfo(fee_transfer_call, outcome)),
              state |-> after, log |-> log]
        ELSE [res |-> Err([error |-> "ExecutionError"]),
              state |-> after, log |-> log]

\* AccountTransaction::execute_fee_transfer, the executor doing `outcome`.
execute_fee_transfer(account_tx_context, actual_fee, st, outcome) ==
    LET max_fee == account_tx_context.max_fee IN
    IF actual_fee > max_fee
    THEN [res |-> Err([error |-> "FeeTransferError", max_fee |-> max_fee,
                       actual_fee |-> actual_fee]),
          state |-> st, log |-> << >>]
    ELSE LET lsb_amount == actual_fee
             msb_amount == 0
             fee_transfer_call ==
                 CallEntryPoint("transfer", FeeTokenAddress,
                                account_tx_context.sender_address,
                                <<SequencerAddress, lsb_amount, msb_amount>>)
             after == [st EXCEPT !.storage = WriteKeys(@, outcome.written, "transfer")]
             log == <<[call |-> fee_transfer_call, on |-> "state",
                       returned |-> outcome]>>
         IN  IF outcome.ok
             THEN [res |-> Ok(CallInfo(fee_transfer_call, outcome)),
                   state |-> after, log |-> log]
             ELSE [res |-> Err([error |-> "ExecutionError"]),
                   state |-> after, log |-> log]

\* charge_fee without the early return on max_fee == 0.
charge_fee_AlwaysCharges(account_tx_context, resources, st, outcome) ==
    LET actual_fee == calculate_tx_fee(resources)
        transfer == execute_fee_transfer(account_tx_context, actual_fee, st, outcome)
    IN  IF transfer.res.ok
        THEN [res |-> Ok([actual_fee |-> actual_fee,
                          fee_transfer_call_info |-> Some(transfer.res.value)]),
              state |-> transfer.state, log |-> transfer.log]
        ELSE transfer

\* charge_fee charging max_fee whatever the resources.
charge_fee_ChargesMaxFee(account_tx_context, resources, st, outcome) ==
    LET no_fee == 0 IN
    IF account_tx_context.max_fee = no_fee
    THEN [res |-> Ok([actual_fee |-> no_fee, fee_transfer_call_info |-> None]),
          state |-> st, log |-> << >>]
    ELSE LET actual_fee == account_tx_context.max_fee
             transfer == execute_fee_transfer(account_tx_context, actual_fee, st, outcome)
         IN  IF transfer.res.ok
             THEN [res |-> Ok([actual_fee |-> actual_fee,
                               fee_transfer_call_info |-> Some(transfer.res.value)]),
                   state |-> transfer.state, log |-> transfer.log]
             ELSE transfer

\* AccountTransaction::charge_fee, the executor doing `outcome`.
charge_fee(account_tx_context, resources, st, outcome) ==
    LET no_fee == 0 IN
    IF account_tx_context.max_fee = no_fee
    THEN [res |-> Ok([actual_fee |-> no_fee, fee_transfer_call_info |-> None]),
          state |-> st, log |-> << >>]
    ELSE LET actual_fee == calculate_tx_fee(resources)
             transfer == execute_fee_transfer(account_tx_context, actual_fee, st, outcome)
         IN  IF transfer.res.ok
             THEN [res |-> Ok([actual_fee |-> actual_fee,
                               fee_transfer_call_info |-> Some(transfer.res.value)]),
                   state |-> transfer.state, log |-> transfer.log]
             ELSE transfer

\* execute_raw, lines 412-423
TransactionExecutionInfo(infos, charged, resources) ==
    [validate_call_info |-> infos.validate_call_info,
     execute_call_info |-> infos.execute_call_info,
     fee_transfer_call_info |-> charged.fee_transfer_call_info,
     actual_fee |-> charged.actual_fee,
     actual_resources |-> resources,
     revert_error |-> IF infos.revert_data.some
                      THEN Some(infos.revert_data.value.revert_error)
                      ELSE None]

\* execute_raw, lines 378-404: resource accounting.
CalculateTxResources ==
    /\ pc = "calculate_tx_resources"
    /\ LET resources == calculate_tx_resources(call_infos.validate_call_info,
                                               call_infos.execute_call_info)
           accounted == add_revert_steps(resources, call_infos.revert_data,
                                         call_infos.execute_call_info, max_steps)
       IN  IF accounted.kind = "panic"
           THEN /\ Return(accounted)
                /\ UNCHANGED actual_resources
           ELSE /\ actual_resources' = accounted.value
                /\ pc' = "charge_fee"
                /\ UNCHANGED result
    /\ calls' = Append(calls, StateAccess("calculate_tx_resources"))
    /\ UNCHANGED <<tx, state, context, max_steps, execution_state,
                   execute_result, call_infos, fee, snapshot>>
    /\ UNCHANGED <<storageVars, dispatcherVars, blockContextVars>>

\* execute_raw, lines 406-410: the fee is charged.
ChargeFee ==
    /\ pc = "charge_fee"
    /\ \E outcome \in TransferOutcomes :
         LET charged == charge_fee(context, actual_resources, state, outcome) IN
         /\ state' = charged.state
         /\ calls' = calls \o charged.log
         /\ IF charged.res.ok
            THEN /\ fee' = charged.res.value
                 /\ pc' = "finalize"
                 /\ UNCHANGED result
            ELSE /\ Return(charged.res)
                 /\ UNCHANGED fee
    /\ UNCHANGED <<tx, context, max_steps, execution_state, execute_result,
                   call_infos, actual_resources, snapshot>>
    /\ UNCHANGED <<storageVars, dispatcherVars, blockContextVars>>

\* execute_raw, lines 412-424: the result.
Finalize ==
    /\ pc = "finalize"
    /\ Return(Ok(TransactionExecutionInfo(call_infos, fee, actual_resources)))
    /\ UNCHANGED <<tx, state, context, max_steps, execution_state,
                   execute_result, call_infos, actual_resources, fee, calls,
                   snapshot>>
    /\ UNCHANGED <<storageVars, dispatcherVars, blockContextVars>>

NextPipeline ==
    \/ VerifyTxVersion
    \/ HandleNonceAndCheckFeeBalance
    \/ DeployAccountExecute
    \/ DeployAccountValidate
    \/ ValidateTx
    \/ RunExecute
    \/ RevertExecute
    \/ CommitExecute
    \/ CalculateTxResources
    \/ ChargeFee
    \/ Finalize

SpecPipeline == InitPipeline /\ [][NextPipeline]_vars

\* execute_raw is synchronous and runs on one worker with no suspension
\* point: as long as a step of it is left, a step is taken.  Every call to
\* the executor is a step that returns.
SpecPipelineFair == SpecPipeline /\ WF_vars(NextPipeline)

(***************************************************************************)
(* VersionedState (concurrency/versioned_state.rs)                         *)
(*                                                                         *)
(* Four VersionedStorages behind read and write functions that take the    *)
(* storage kind as a tag and the cell id, key and value as Box<dyn Any>.   *)
(***************************************************************************)

\* enum StorageType
StorageTypes == {"ContractStorage", "ClassHash", "Nonce", "CompiledClassHash"}

\* VersionId: two versions, enough for a cell with an earlier and a later write.
VersionIds == {0, 1}

\* A Box<dyn Any>: the concrete type of the boxed value and the value, one
\* value of each type the downcasts name.
Boxes ==
    {[type |-> "(ContractAddress, StorageKey)", data |-> <<"address", "key">>],
     [type |-> "ContractAddress", data |-> "address"],
     [type |-> "StorageKey", data |-> "key"],
     [type |-> "ClassHash", data |-> "class_hash"],
     [type |-> "StarkFelt", data |-> "felt"],
     [type |-> "Nonce", data |-> "nonce"],
     [type |-> "CompiledClassHash", data |-> "compiled_class_hash"]}

\* The boxes a call is given as its cell id, its key and its value: for each
\* storage kind the types it takes and types it does not take.
CellIdBoxes ==
    {b \in Boxes :
        b.type \in {"(ContractAddress, StorageKey)", "ContractAddress", "ClassHash"}}
KeyIdBoxes == {b \in Boxes : b.type \in {"StorageKey", "ContractAddress"}}
ValueBoxes ==
    {b \in Boxes :
        b.type \in {"StarkFelt", "ClassHash", "Nonce", "CompiledClassHash"}}

\* <dyn Any>::downcast_ref::<T>()
downcast_ref(boxed, T) == IF boxed.type = T THEN Some(boxed.data) ELSE None

\* The base-value readers VersionedState::new binds to the four storages.
get_storage == [c \in {<<"address", "key">>} |-> Ok("initial felt")]
get_class_hash == [c \in {"address"} |-> Ok("initial class_hash")]
get_nonce == [c \in {"address"} |-> Ok("initial nonce")]
get_compiled_class_hash ==
    [c \in {"class_hash"} |-> Ok("initial compiled_class_hash")]

\* VersionedState::new: the `writes` of the four storages.
VersionedState_new ==
    [contract_storage_versioned_storage |-> NewWrites,
     class_hash_versioned_storage |-> NewWrites,
     nonce_versioned_storage |-> NewWrites,
     compiled_class_hash_versioned_storage |-> NewWrites]

\* unimplemented!()
unimplemented == Panicked("not implemented")

\* VersionedState::read: the outcome and the storages it read.
VersionedState_read(self, storage_type, cell_id, version) ==
    CASE storage_type = "ContractStorage" ->
           LET cell == downcast_ref(cell_id, "(ContractAddress, StorageKey)") IN
           IF cell.some
           THEN [outcome |-> read(self.contract_storage_versioned_storage,
                                  get_storage, cell.value, version),
                 accessed |-> {"contract_storage_versioned_storage"}]
           ELSE [outcome |-> unimplemented, accessed |-> {}]
      [] storage_type = "ClassHash" ->
           LET cell == downcast_ref(cell_id, "ContractAddress") IN
           IF cell.some
           THEN [outcome |-> read(self.class_hash_versioned_storage,
                                  get_class_hash, cell.value, version),
                 accessed |-> {"class_hash_versioned_storage"}]
           ELSE [outcome |-> unimplemented, accessed |-> {}]
      [] storage_type = "Nonce" ->
           LET cell == downcast_ref(cell_id, "ContractAddress") IN
           IF cell.some
           THEN [outcome |-> read(self.nonce_versioned_storage,
                                  get_nonce, cell.value, version),
                 accessed |-> {"nonce_versioned_storage"}]
           ELSE [outcome |-> unimplemented, accessed |-> {}]
      [] storage_type = "CompiledClassHash" ->
           LET cell == downcast_ref(cell_id, "ClassHash") IN
           IF cell.some
           THEN [outcome |-> read(self.compiled_class_hash_versioned_storage,
                                  get_compiled_class_hash, cell.value, version),
                 accessed |-> {"compiled_class_hash_versioned_storage"}]
           ELSE [outcome |-> unimplemented, accessed |-> {}]

\* What a VersionedState::write that panicked leaves.
WritePanicked(self) ==
    [outcome |-> unimplemented, accessed |-> {}, self |-> self]

\* A write that also puts what it wrote to the nonce storage into the class
\* hash storage, the other storage keyed by a contract address.
WriteReturned_SharesAddressCells(self, store, written_store) ==
    [outcome |-> Returned("unit"), accessed |-> {store},
     self |-> IF store = "nonce_versioned_storage"
              THEN [self EXCEPT ![store] = written_store,
                                !["class_hash_versioned_storage"] = written_store]
              ELSE [self EXCEPT ![store] = written_store]]

\* What a VersionedState::write that wrote `store` leaves.
WriteReturned(self, store, written_store) ==
    [outcome |-> Returned("unit"), accessed |-> {store},
     self |-> [self EXCEPT ![store] = written_store]]

\* VersionedState::write with the value written as it comes, whatever its
\* type.
VersionedState_write_UncheckedValue(self, storage_type, cell_id, key_id, version, value) ==
    CASE storage_type = "ContractStorage" ->
           LET cell == downcast_ref(cell_id, "ContractAddress")
               key == downcast_ref(key_id, "StorageKey")
           IN  IF cell.some /\ key.some
               THEN WriteReturned(self, "contract_storage_versioned_storage",
                        write(self.contract_storage_versioned_storage,
                              <<cell.value, key.value>>, version, value.data))
               ELSE WritePanicked(self)
      [] storage_type = "ClassHash" ->
           LET cell == downcast_ref(cell_id, "ContractAddress") IN
           IF cell.some
           THEN WriteReturned(self, "class_hash_versioned_storage",
                    write(self.class_hash_versioned_storage,
                          cell.value, version, value.data))
           ELSE WritePanicked(self)
      [] storage_type = "Nonce" ->
           LET cell == downcast_ref(cell_id, "ContractAddress") IN
           IF cell.some
           THEN WriteReturned(self, "nonce_versioned_storage",
                    write(self.nonce_versioned_storage,
                          cell.value, version, value.data))
           ELSE WritePanicked(self)
      [] storage_type = "CompiledClassHash" ->
           LET cell == downcast_ref(cell_id, "ClassHash") IN
           IF cell.some
           THEN WriteReturned(self, "compiled_class_hash_versioned_storage",
                    write(self.compiled_class_hash_versioned_storage,
                          cell.value, version, value.data))
           ELSE WritePanicked(self)

\* VersionedState::write: the outcome, the storages it wrote and the
\* VersionedState it leaves.  key_id is looked at for ContractStorage only.
VersionedState_write(self, storage_type, cell_id, key_id, version, value) ==
    CASE storage_type = "ContractStorage" ->
           LET cell == downcast_ref(cell_id, "ContractAddress")
               key == downcast_ref(key_id, "StorageKey")
               val == downcast_ref(value, "StarkFelt")
           IN  IF cell.some
               THEN IF key.some
                    THEN IF val.some
                         THEN WriteReturned(self, "contract_storage_versioned_storage",
                                  write(self.contract_storage_versioned_storage,
                                        <<cell.value, key.value>>, version, val.value))
                         ELSE WritePanicked(self)
                    ELSE WritePanicked(self)
               ELSE WritePanicked(self)
      [] storage_type = "ClassHash" ->
           LET cell == downcast_ref(cell_id, "ContractAddress")
               val == downcast_ref(value, "ClassHash")
           IN  IF cell.some
               THEN IF val.some
                    THEN WriteReturned(self, "class_hash_versioned_storage",
                             write(self.class_hash_versioned_storage,
                                   cell.value, version, val.value))
                    ELSE WritePanicked(self)
               ELSE WritePanicked(self)
      [] storage_type = "Nonce" ->
           LET cell == downcast_ref(cell_id, "ContractAddress")
               val == downcast_ref(value, "Nonce")
           IN  IF cell.some
               THEN IF val.some
                    THEN WriteReturned(self, "nonce_versioned_storage",
                             write(self.nonce_versioned_storage,
                                   cell.value, version, val.value))
                    ELSE WritePanicked(self)
               ELSE WritePanicked(self)
      [] storage_type = "CompiledClassHash" ->
           LET cell == downcast_ref(cell_id, "ClassHash")
               val == downcast_ref(value, "CompiledClassHash")
           IN  IF cell.some
               THEN IF val.some
                    THEN WriteReturned(self, "compiled_class_hash_versioned_storage",
                             write(self.compiled_class_hash_versioned_storage,
                                   cell.value, version, val.value))
                    ELSE WritePanicked(self)
               ELSE WritePanicked(self)

InitVersionedState ==
    /\ PipelineIdle
    /\ StorageIdle
    /\ BlockContextIdle
    /\ versioned_state = VersionedState_new
    /\ dispatch = [kind |-> "new"]

VersionedStateRead ==
    \E storage_type \in StorageTypes, cell_id \in CellIdBoxes, version \in VersionIds :
        LET done == VersionedState_read(versioned_state, storage_type, cell_id, version) IN
        /\ dispatch' = [kind |-> "read", storage_type |-> storage_type,
                        cell_id |-> cell_id.type,
                        outcome |-> done.outcome, accessed |-> done.accessed]
        /\ UNCHANGED versioned_state
        /\ UNCHANGED <<storageVars, pipelineVars, blockContextVars>>

VersionedStateWrite ==
    \E storage_type \in StorageTypes, cell_id \in CellIdBoxes, key_id \in KeyIdBoxes,
       version \in VersionIds, value \in ValueBoxes :
        LET done == VersionedState_write(versioned_state, storage_type, cell_id,
                                         key_id, version, value) IN
        /\ versioned_state' = done.self
        /\ dispatch' = [kind |-> "write", storage_type |-> storage_type,
                        cell_id |-> cell_id.type, key_id |-> key_id.type,
                        version |-> version, value |-> value.type,
                        outcome |-> done.outcome, accessed |-> done.accessed]
        /\ UNCHANGED <<storageVars, pipelineVars, blockContextVars>>

NextVersionedState == VersionedStateRead \/ VersionedStateWrite

SpecVersionedState == InitVersionedState /\ [][NextVersionedState]_vars

(***************************************************************************)
(* BlockContext: the fee token address and the L1 gas price of a version   *)
(***************************************************************************)

\* The addresses the two fee tokens may have and the prices of L1 gas; the
\* two tokens may be given the same address or the same price.
ContractAddresses == {"token_a", "token_b"}
L1GasPrices == {1, 2}

\* struct FeeTokenAddresses
FeeTokenAddresses ==
    [strk_fee_token_address : ContractAddresses,
     eth_fee_token_address : ContractAddresses]

\* struct GasPrices
GasPrices == [eth_l1_gas_price : L1GasPrices, strk_l1_gas_price : L1GasPrices]

\* struct BlockContext: its fee token addresses and its gas prices.
BlockContexts == [fee_token_addresses : FeeTokenAddresses, gas_prices : GasPrices]

\* What a &dyn HasRelatedFeeType answers to is_l1_handler() and version().
HasRelatedFeeTypes == [is_l1_handler : BOOLEAN, version : 0..MaxTxVersion]

\* is_strk_version looking at the version only.
is_strk_version_IgnoresL1Handler(version) == version.version >= 3

\* fn is_strk_version
is_strk_version(version) == ~version.is_l1_handler /\ version.version >= 3

\* FeeTokenAddresses::get_for_version
FeeTokenAddresses_get_for_version(self, version) ==
    IF is_strk_version(version)
    THEN self.strk_fee_token_address
    ELSE self.eth_fee_token_address

\* GasPrices::get_for_version
GasPrices_get_for_version(self, version) ==
    IF is_strk_version(version) THEN self.strk_l1_gas_price ELSE self.eth_l1_gas_price

\* BlockContext::fee_token_address
BlockContext_fee_token_address(self, version) ==
    FeeTokenAddresses_get_for_version(self.fee_token_addresses, version)

InitBlockContext ==
    /\ StorageIdle
    /\ PipelineIdle
    /\ DispatcherIdle
    /\ block_context \in BlockContexts
    /\ has_version \in HasRelatedFeeTypes
    /\ selected = [fee_token_address |-> None, l1_gas_price |-> None]

\* block_context.fee_token_address(has_version)
SelectFeeTokenAddress ==
    /\ selected' = [selected EXCEPT !.fee_token_address =
                        Some(BlockContext_fee_token_address(block_context, has_version))]
    /\ UNCHANGED <<block_context, has_version>>
    /\ UNCHANGED <<storageVars, pipelineVars, dispatcherVars>>

\* block_context.gas_prices.get_for_version(has_version)
SelectL1GasPrice ==
    /\ selected' = [selected EXCEPT !.l1_gas_price =
                        Some(GasPrices_get_for_version(block_context.gas_prices,
                                                       has_version))]
    /\ UNCHANGED <<block_context, has_version>>
    /\ UNCHANGED <<storageVars, pipelineVars, dispatcherVars>>

NextBlockContext == SelectFeeTokenAddress \/ SelectL1GasPrice

SpecBlockContext == InitBlockContext /\ [][NextBlockContext]_vars

(***************************************************************************)
(* Claims about VersionedStorage (checked under SpecStorage)               *)
(***************************************************************************)

\* The versions up to V at which write(cell, _, _) was called.
WrittenUpTo(cell, V) == {v \in Versions : v <= V /\ written[cell][v].some}
WrittenAfter(cell, V) == {v \in Versions : v > V /\ written[cell][v].some}
NeverWritten(cell) == \A v \in Versions : ~written[cell][v].some

\* C1: a read(cell, V) that follows a write to the cell at a version <= V
\* returns the value last written at the greatest such version; when every
\* write to the cell has a version > V, the read returns none of the written
\* values (it falls back to the base value, or panics on the callback's Err).
C1_ReadReturnsGreatestWriteUpTo ==
    op.kind = "read" =>
        LET upTo == WrittenUpTo(op.cell, op.version) IN
        /\ upTo # {} => op.outcome = Returned(written[op.cell][Max(upTo)].value)
        /\ upTo = {} =>
              (op.outcome.kind = "value" => op.outcome.value \notin Values)

\* C1 witness: a read at V between two writes of different values, one below
\* V and one above it, returned the lower one's value.
C1_Witness ==
    /\ op.kind = "read"
    /\ \E v \in WrittenUpTo(op.cell, op.version), u \in WrittenAfter(op.cell, op.version) :
          /\ v < op.version
          /\ v = Max(WrittenUpTo(op.cell, op.version))
          /\ written[op.cell][v] # written[op.cell][u]
          /\ op.outcome = Returned(written[op.cell][v].value)

\* C2 (as claimed): a read of a cell that was never written returns the
\* base-value callback's result.
C2_UnwrittenReadReturnsBase ==
    (op.kind = "read" /\ NeverWritten(op.cell) /\ base_value[op.cell].ok)
        => op.outcome = Returned(base_value[op.cell].value)

\* C3 (as claimed): write(cell, v1, x) leaves the outcome of read(cell, v2)
\* as it was, for every v2 < v1.
C3_WriteKeepsLowerReads ==
    [][op'.kind = "write" =>
         \A v2 \in Versions :
            v2 < op'.version =>
               read(writes', base_value', op'.cell, v2)
                   = read(writes, base_value, op'.cell, v2)]_storageVars


(***************************************************************************)
(* Claims about execute_raw (checked under SpecPipeline)                   *)
(***************************************************************************)

\* The version, the sender and the nonce of the transaction being executed.
StatedVersion ==
    IF tx.kind = "Invoke" THEN (IF tx.variant = "V1" THEN 1 ELSE 0) ELSE tx.version
StatedSender ==
    IF tx.kind = "DeployAccount" THEN tx.contract_address ELSE tx.sender_address

IsOk(res) == "ok" \in DOMAIN res /\ res.ok
IsErr(res, name) == "ok" \in DOMAIN res /\ ~res.ok /\ res.error.error = name
IsCall(entry, selector) ==
    "call" \in DOMAIN entry /\ entry.call.entry_point_selector = selector
Called(selector) == \E i \in DOMAIN calls : IsCall(calls[i], selector)

\* The version check let the transaction through to the nonce check, and
\* handle_nonce_and_check_fee_balance has returned.
PastNonceAndBalanceCheck ==
    /\ pc \notin {"start", "handle_nonce_and_check_fee_balance"}
    /\ ~IsErr(result, "InvalidVersion")

\* An Invoke or Declare whose validate call returned a trace and whose
\* run_execute returned an error.
ValidatedThenExecuteFailed ==
    /\ tx.kind # "DeployAccount"
    /\ call_infos.validate_call_info.some
    /\ "ok" \in DOMAIN execute_result
    /\ ~execute_result.ok

\* The steps the failed execution consumed, by the remaining steps its error
\* reports (nothing when it reports none).
ExecuteStepsConsumed ==
    LET remaining == execute_result.error.remaining_resources IN
    IF remaining.some THEN max_steps - remaining.value ELSE 0

RevertedInfo(info) ==
    /\ info.revert_error.some
    /\ ~info.execute_call_info.some
    /\ info.validate_call_info.some
    /\ info.actual_resources =
          [r \in {"n_steps"} |->
              info.validate_call_info.value.n_steps + ExecuteStepsConsumed]

C5_RevertDiscardsExecuteWrites ==
    (/\ pc = "calculate_tx_resources"
     /\ tx.kind # "DeployAccount"
     /\ call_infos.revert_data.some)
        => /\ state = snapshot.validated.value
           /\ \A k \in Keys : state.storage[k] # "execute"
           /\ context.version > 0 => state.nonce = snapshot.initial.nonce + 1

\* C5 witness: the execution wrote into the overlay, failed and was aborted,
\* after validate had written to the state.
C5_Witness ==
    /\ pc = "calculate_tx_resources"
    /\ tx.kind # "DeployAccount"
    /\ call_infos.revert_data.some
    /\ execution_state.ended = "abort"
    /\ DOMAIN execution_state.cache = Keys
    /\ \E k \in Keys : state.storage[k] = "validate"
    /\ state.nonce = snapshot.initial.nonce + 1

\* C6: a transaction of version > 0 that reaches the nonce check with a nonce
\* other than the stored one ends with InvalidNonce{expected: the stored
\* nonce, actual: the stated nonce}, and the state (its nonce too) is
\* untouched.
C6_NonceMismatchIsInvalidNonce ==
    (/\ PastNonceAndBalanceCheck
     /\ StatedVersion > 0
     /\ tx.nonce # snapshot.initial.nonce)
        => /\ pc = "done"
           /\ result = Err([error |-> "InvalidNonce",
                            address |-> StatedSender,
                            expected_nonce |-> snapshot.initial.nonce,
                            actual_nonce |-> tx.nonce])
           /\ state.nonce = snapshot.initial.nonce
           /\ state = snapshot.initial

\* C6 witness: stored nonce 1, stated nonce 0.
C6_Witness ==
    /\ pc = "done"
    /\ IsErr(result, "InvalidNonce")
    /\ result.error.expected_nonce = 1
    /\ result.error.actual_nonce = 0
    /\ state.nonce = 1

\* C7: once a transaction of version > 0 has passed the nonce check with the
\* stored nonce n, the stored nonce is n + 1 in every later state of the
\* execution, whatever its outcome.
C7_NonceIncrementIsKept ==
    (/\ PastNonceAndBalanceCheck
     /\ StatedVersion > 0
     /\ tx.nonce = snapshot.initial.nonce)
        => /\ state.nonce = snapshot.initial.nonce + 1
           /\ ~IsErr(result, "InvalidNonce")

\* C7 witness: the balance check rejected the transaction after the nonce was
\* incremented.
C7_Witness ==
    /\ pc = "done"
    /\ IsErr(result, "MaxFeeExceedsBalance")
    /\ StatedVersion > 0
    /\ state.nonce = snapshot.initial.nonce + 1

\* C8: a transaction with max_fee = 0 that got through fee charging has
\* actual_fee = 0 and no fee-transfer trace, ends Ok with these, and no
\* transfer call was made.
C8_ZeroMaxFeeChargesNothing ==
    (/\ pc \in {"finalize", "done"}
     /\ tx.max_fee = 0
     /\ actual_resources # None)
        => /\ fee = [actual_fee |-> 0, fee_transfer_call_info |-> None]
           /\ ~Called("transfer")
           /\ pc = "done" =>
                /\ IsOk(result)
                /\ result.value.actual_fee = 0
                /\ ~result.value.fee_transfer_call_info.some

\* C8 witness: validate and execute consumed steps, and nothing was charged.
C8_Witness ==
    /\ pc = "done"
    /\ tx.max_fee = 0
    /\ IsOk(result)
    /\ result.value.validate_call_info.some
    /\ result.value.execute_call_info.some
    /\ result.value.actual_resources["n_steps"] > 1
    /\ result.value.actual_fee = 0

\* The nonce check was reached and passed.
NonceCheckPassed ==
    /\ PastNonceAndBalanceCheck
    /\ ~IsErr(result, "InvalidNonce")

\* C9: once the balance check has run, the pipeline has ended with
\* MaxFeeExceedsBalance exactly when max_fee # 0, the balance's high word is 0
\* and its low word is below max_fee; with max_fee = 0 the balance was not
\* read.
C9_BalanceCheck ==
    NonceCheckPassed =>
        LET rejected == pc = "done" /\ IsErr(result, "MaxFeeExceedsBalance")
            low == snapshot.initial.balance_low
            high == snapshot.initial.balance_high
        IN  /\ tx.max_fee # 0 => (rejected <=> (high = 0 /\ low < tx.max_fee))
            /\ tx.max_fee = 0 =>
                 /\ ~rejected
                 /\ \A i \in DOMAIN calls :
                       calls[i] # StateAccess("get_fee_token_balance")
            /\ rejected =>
                 result.error = [error |-> "MaxFeeExceedsBalance",
                                 max_fee |-> tx.max_fee,
                                 balance_low |-> low, balance_high |-> high]

\* C9 witness: max_fee 2 with balance (1, 0) was rejected.
C9_Witness ==
    /\ pc = "done"
    /\ IsErr(result, "MaxFeeExceedsBalance")
    /\ tx.max_fee = 2
    /\ state.balance_low = 1
    /\ state.balance_high = 0

\* The allow-lists as the specification states them.
StatedAllowList ==
    CASE tx.kind = "Declare" -> {0, 1, 2}
      [] tx.kind = "Invoke" -> {0, 1}
      [] tx.kind = "DeployAccount" -> {1}

\* C10: once the version check has run, the pipeline has ended with
\* InvalidVersion exactly when the version is outside the kind's allow-list,
\* and then no state access and no call was made and the state is untouched.
C10_InvalidVersion ==
    pc # "start" =>
        /\ IsErr(result, "InvalidVersion") <=> StatedVersion \notin StatedAllowList
        /\ IsErr(result, "InvalidVersion") =>
             /\ pc = "done"
             /\ result.error.version = StatedVersion
             /\ result.error.allowed_versions = StatedAllowList
             /\ calls = << >>
             /\ state = snapshot.initial

\* C10 witness: a DeployAccount of version 0 was rejected.
C10_Witness ==
    /\ pc = "done"
    /\ IsErr(result, "InvalidVersion")
    /\ tx.kind = "DeployAccount"
    /\ StatedVersion = 0

\* The entries of `calls` that are validate calls of the transaction.
ValidateCalls ==
    {i \in DOMAIN calls : IsCall(calls[i], validate_entry_point_selector(tx))}

\* The executor failed the validate call, or the call it ran made a nested call
\* to another contract.
ValidateRefused(i) ==
    \/ ~calls[i].returned.ok
    \/ calls[i].returned.inner_call_to_other_contract

IsAnyErr(res) == "ok" \in DOMAIN res /\ ~res.ok

\* C11: for a transaction of version 0 the stored nonce is never read nor
\* incremented, no validate call is made to the executor, and neither the
\* call infos nor the result have a validate trace.
C11_VersionZeroSkipsNonceAndValidate ==
    (pc # "start" /\ StatedVersion = 0)
        => /\ state.nonce = snapshot.initial.nonce
           /\ \A i \in DOMAIN calls :
                 /\ calls[i] # StateAccess("get_nonce_at")
                 /\ calls[i] # StateAccess("increment_nonce")
           /\ ValidateCalls = {}
           /\ ~call_infos.validate_call_info.some
           /\ IsOk(result) => ~result.value.validate_call_info.some

\* C11 witness: a version-0 transaction whose stated nonce is not the stored
\* one executed and ended Ok.
C11_Witness ==
    /\ pc = "done"
    /\ StatedVersion = 0
    /\ tx.nonce # state.nonce
    /\ IsOk(result)
    /\ result.value.execute_call_info.some
    /\ ~result.value.validate_call_info.some

\* charge_fee has run (it follows resource accounting).
ChargeFeeRan == pc \in {"finalize", "done"} /\ actual_resources # None

\* The transfer call of execute_fee_transfer for a fee.
TransferOf(actual_fee) ==
    CallEntryPoint("transfer", FeeTokenAddress, StatedSender,
                   <<SequencerAddress, actual_fee, 0>>)

TransferCalls == {i \in DOMAIN calls : IsCall(calls[i], "transfer")}

FeeExceedsMaxFee ==
    /\ pc = "done"
    /\ result = Err([error |-> "FeeTransferError", max_fee |-> tx.max_fee,
                     actual_fee |-> calculate_tx_fee(actual_resources)])
    /\ TransferCalls = {}

\* C12 (as claimed): with max_fee # 0, a computed fee above max_fee ends the
\* pipeline with FeeTransferError{max_fee, actual_fee} and no transfer call;
\* otherwise one transfer of actual_fee from the sender to the sequencer on
\* the fee token is executed and the result is Ok with its trace.
C12_TransferTraceIsKept ==
    (ChargeFeeRan /\ tx.max_fee # 0) =>
        LET actual_fee == calculate_tx_fee(actual_resources) IN
        IF actual_fee > tx.max_fee
        THEN FeeExceedsMaxFee
        ELSE /\ \E i \in TransferCalls :
                   /\ TransferCalls = {i}
                   /\ calls[i].call = TransferOf(actual_fee)
             /\ pc = "done" =>
                   /\ IsOk(result)
                   /\ result.value.actual_fee = actual_fee
                   /\ result.value.fee_transfer_call_info.some
                   /\ result.value.fee_transfer_call_info.value.call
                         = TransferOf(actual_fee)

\* C12 (amended): with max_fee # 0, a computed fee above max_fee ends the
\* pipeline with FeeTransferError{max_fee, actual_fee} and no transfer call;
\* otherwise one transfer call of actual_fee from the sender to the sequencer
\* on the fee token is executed: when the executor returns its trace the
\* result is Ok with that trace, when the executor fails the call the
\* pipeline ends with that error.
C12_TransferTraceIsKeptIfTransferSucceeds ==
    (ChargeFeeRan /\ tx.max_fee # 0) =>
        LET actual_fee == calculate_tx_fee(actual_resources) IN
        IF actual_fee > tx.max_fee
        THEN FeeExceedsMaxFee
        ELSE \E i \in TransferCalls :
                /\ TransferCalls = {i}
                /\ calls[i].call = TransferOf(actual_fee)
                /\ IF calls[i].returned.ok
                   THEN /\ fee = [actual_fee |-> actual_fee,
                                  fee_transfer_call_info |->
                                      Some(CallInfo(TransferOf(actual_fee),
                                                    calls[i].returned))]
                        /\ pc = "done" =>
                              /\ IsOk(result)
                              /\ result.value.actual_fee = actual_fee
                              /\ result.value.fee_transfer_call_info
                                    = fee.fee_transfer_call_info
                   ELSE /\ pc = "done"
                        /\ result = Err([error |-> "ExecutionError"])

\* C12 witness: validate and execute consumed max_fee steps together, the
\* transfer of that fee was executed and its trace is in the Ok result.
C12_Witness ==
    /\ pc = "done"
    /\ IsOk(result)
    /\ tx.max_fee = 2
    /\ result.value.actual_fee = 2
    /\ result.value.fee_transfer_call_info.some
    /\ result.value.fee_transfer_call_info.value.call = TransferOf(2)
    /\ TransferCalls # {}

\* An Invoke or Declare was reverted and its resources are accounted.
RevertAccounted ==
    /\ tx.kind # "DeployAccount"
    /\ call_infos.revert_data.some
    /\ actual_resources # None

C14_RefusedValidateIsError ==
    \A i \in ValidateCalls :
        ValidateRefused(i) =>
            /\ StatedVersion > 0
            /\ pc = "done"
            /\ IsAnyErr(result)
            /\ result.error.error
                  = (IF calls[i].returned.ok THEN "UnauthorizedInnerCall"
                                             ELSE "ValidateTransactionError")
            /\ tx.kind # "DeployAccount" =>
                  /\ ~Called("run_execute")
                  /\ execute_result = None
                  /\ execution_state = None

\* C14 witness: the validate call of an Invoke returned a trace with a nested
\* call to another contract.
C14_Witness ==
    /\ pc = "done"
    /\ tx.kind = "Invoke"
    /\ IsErr(result, "UnauthorizedInnerCall")
    /\ \E i \in ValidateCalls :
          /\ calls[i].returned.ok
          /\ calls[i].returned.inner_call_to_other_contract

\* C15: a DeployAccount never has an overlay nor RevertData; its run_execute
\* runs on the state itself and before its validate call; a failed execute or
\* a refused validate ends the pipeline with an Err; no result of it has a
\* revert error.
C15_DeployAccountFailsHard ==
    tx.kind = "DeployAccount" =>
        /\ execution_state = None
        /\ ~call_infos.revert_data.some
        /\ \A i \in DOMAIN calls :
              IsCall(calls[i], "run_execute") => calls[i].on = "state"
        /\ \A i \in ValidateCalls :
              \E j \in 1..(i - 1) : IsCall(calls[j], "run_execute")
        /\ IsAnyErr(execute_result) => (pc = "done" /\ IsAnyErr(result))
        /\ \A i \in ValidateCalls :
              ValidateRefused(i) => (pc = "done" /\ IsAnyErr(result))
        /\ IsOk(result) => ~result.value.revert_error.some

\* C15 witness: the execute of a DeployAccount wrote to the state and failed.
C15_Witness ==
    /\ tx.kind = "DeployAccount"
    /\ pc = "done"
    /\ IsAnyErr(execute_result)
    /\ IsErr(result, "ExecutionError")
    /\ \A k \in Keys : state.storage[k] = "execute"

\* The keys of the outer state that hold a write of execute.
ExecuteWritesIn(st) == {k \in Keys : st.storage[k] = "execute"}

\* C16: the overlay of an Invoke or Declare ends by commit exactly when
\* execute succeeded and by abort exactly when it failed; a commit puts every
\* write of the overlay into the outer state in one step and keeps the
\* execute trace, an abort puts none; until then the outer state is as
\* validate left it, so the outer state never holds a part of the overlay's
\* writes.
C16_CommitIsAllOrNothing ==
    (tx.kind # "DeployAccount" /\ execution_state # None) =>
        LET cache == execution_state.cache
            before == snapshot.validated.value
            committed ==
                [before EXCEPT !.storage =
                    [k \in Keys |-> IF k \in DOMAIN cache THEN cache[k]
                                    ELSE before.storage[k]]]
        IN  /\ pc = "match_run_execute" =>
                  (execution_state.ended = "no" /\ state = before)
            /\ pc # "match_run_execute" =>
                  /\ execution_state.ended = (IF execute_result.ok THEN "commit"
                                              ELSE "abort")
                  /\ execute_result.ok =>
                        call_infos.execute_call_info = execute_result.value
            /\ pc \in {"calculate_tx_resources", "charge_fee"} =>
                  state = (IF execute_result.ok THEN committed ELSE before)
            /\ TransferCalls = {} =>
                  ExecuteWritesIn(state) \in {{}, DOMAIN cache}
            /\ (IsOk(result) /\ execute_result.ok) =>
                  result.value.execute_call_info = execute_result.value

\* C16 witness: validate wrote a key, execute wrote both keys into the
\* overlay and succeeded, and the commit put both into the outer state.
C16_Witness ==
    /\ tx.kind # "DeployAccount"
    /\ pc = "calculate_tx_resources"
    /\ execution_state # None
    /\ execution_state.ended = "commit"
    /\ DOMAIN execution_state.cache = Keys
    /\ \E k \in Keys : snapshot.validated.value.storage[k] = "validate"
    /\ ExecuteWritesIn(state) = Keys
    /\ call_infos.execute_call_info.some

\* The three terminal outcomes of execute_raw.
Success == pc = "done" /\ IsOk(result) /\ ~result.value.revert_error.some
Revert == pc = "done" /\ IsOk(result) /\ result.value.revert_error.some
HardError == pc = "done" /\ IsAnyErr(result)

\* C17: every run of execute_raw reaches a terminal outcome: a success, a
\* revert or a hard error (checked under SpecPipelineFair, where each call to
\* the executor returns).
C17_ReachesTerminalOutcome == <>(Success \/ Revert \/ HardError)

\* C17 witness: a run went through every phase and ended as a revert with
\* its fee transferred.
C17_Witness ==
    /\ Revert
    /\ result.value.validate_call_info.some
    /\ result.value.fee_transfer_call_info.some
    /\ result.value.actual_fee > 0

(***************************************************************************)
(* Claims about VersionedState (checked under SpecVersionedState)          *)
(***************************************************************************)

\* The payload types of each storage kind: the cell id of a read, the cell
\* id, key and value of a write.  Only contract storage has a key.
DeclaredCellId(call, storage_type) ==
    CASE storage_type = "ContractStorage" ->
           (IF call = "read" THEN "(ContractAddress, StorageKey)"
                             ELSE "ContractAddress")
      [] storage_type = "ClassHash" -> "ContractAddress"
      [] storage_type = "Nonce" -> "ContractAddress"
      [] storage_type = "CompiledClassHash" -> "ClassHash"

DeclaredKeyId(storage_type) ==
    IF storage_type = "ContractStorage" THEN {"StorageKey"}
    ELSE {b.type : b \in Boxes}

DeclaredValue(storage_type) ==
    CASE storage_type = "ContractStorage" -> "StarkFelt"
      [] storage_type = "ClassHash" -> "ClassHash"
      [] storage_type = "Nonce" -> "Nonce"
      [] storage_type = "CompiledClassHash" -> "CompiledClassHash"

\* A payload of the request has another type than its storage kind declares.
Mismatched(request) ==
    \/ request.cell_id # DeclaredCellId(request.kind, request.storage_type)
    \/ /\ request.kind = "write"
       /\ \/ request.key_id \notin DeclaredKeyId(request.storage_type)
          \/ request.value # DeclaredValue(request.storage_type)

\* Every storage holds cells and values of its own types only.
HoldsOnly(storage, cell, value) ==
    /\ DOMAIN storage \subseteq {cell}
    /\ \A c \in DOMAIN storage : \A v \in DOMAIN storage[c] : storage[c][v] = value

StoragesWellTyped(self) ==
    /\ HoldsOnly(self.contract_storage_versioned_storage, <<"address", "key">>, "felt")
    /\ HoldsOnly(self.class_hash_versioned_storage, "address", "class_hash")
    /\ HoldsOnly(self.nonce_versioned_storage, "address", "nonce")
    /\ HoldsOnly(self.compiled_class_hash_versioned_storage, "class_hash",
                 "compiled_class_hash")

\* C18: a read or write whose cell id, key or value has another type than
\* the storage kind declares panics without reading or writing any of the
\* four storages, which stay as they were; no storage ever holds a cell or a
\* value of another type than its own.
C18_MismatchPanics ==
    [][/\ Mismatched(dispatch') =>
             /\ dispatch'.outcome = unimplemented
             /\ dispatch'.accessed = {}
             /\ versioned_state' = versioned_state
       /\ StoragesWellTyped(versioned_state')]_dispatcherVars

\* C18 witness: with the four storages written, a write to contract storage
\* with the right cell id and key and a Nonce as its value panicked.
C18_Witness ==
    /\ dispatch.kind = "write"
    /\ dispatch.storage_type = "ContractStorage"
    /\ dispatch.cell_id = "ContractAddress"
    /\ dispatch.key_id = "StorageKey"
    /\ dispatch.value = "Nonce"
    /\ dispatch.outcome = unimplemented
    /\ \A store \in DOMAIN versioned_state : versioned_state[store] # NewWrites

(***************************************************************************)
(* More claims about execute_raw and VersionedStorage                      *)
(***************************************************************************)

\* execute_raw returned a rejection: an error of the version check, the nonce
\* check, the balance check or validate.
Rejections ==
    {"InvalidVersion", "InvalidNonce", "MaxFeeExceedsBalance",
     "ValidateTransactionError", "UnauthorizedInnerCall"}
Rejected ==
    pc = "done" /\ IsAnyErr(result) /\ result.error.error \in Rejections

\* C19 (as claimed): when execute_raw returns a rejection, the state is the
\* state before the transaction, or, if the nonce check had passed, that
\* state with the sender's nonce incremented.
C19_RejectionIsNotApplied ==
    Rejected =>
        \/ state = snapshot.initial
        \/ /\ StatedVersion > 0
           /\ result.error.error \notin {"InvalidVersion", "InvalidNonce"}
           /\ state = [snapshot.initial EXCEPT !.nonce = @ + 1]

\* C20: the write history holds for each (cell, version) exactly the value
\* last passed to write for it and nothing for a pair never written; a write
\* is always possible and leaves its value in its entry, replacing the value
\* the entry held; a read at a written version returns the value written
\* last at that version.
C20_LastWriteWins ==
    /\ ENABLED Write
    /\ \A c \in Cells, v \in Versions :
          /\ written[c][v].some <=> (c \in DOMAIN writes /\ v \in DOMAIN writes[c])
          /\ written[c][v].some =>
                /\ writes[c][v] = written[c][v].value
                /\ read(writes, base_value, c, v) = Returned(written[c][v].value)
    /\ op.kind = "write" =>
          /\ writes[op.cell][op.version] = op.value
          /\ written[op.cell][op.version] = Some(op.value)

\* C20 witness: a second write at the same (cell, version) replaced another
\* value, and a read at that version returns the second one.
C20_Witness ==
    /\ op.kind = "write"
    /\ op.previous.some
    /\ op.previous.value # op.value
    /\ read(writes, base_value, op.cell, op.version) = Returned(op.value)

\* What the base-value callback's result makes of a read: its value, or the
\* panic of expect() on its Err.
BaseOutcome(cell) ==
    IF base_value[cell].ok
    THEN Returned(base_value[cell].value)
    ELSE Panicked("Base value read callback returned an error")

\* C21: a read(cell, V) of a written cell at a version V below every written
\* version of the cell invokes the callback and returns its result, whatever
\* was written above V; and the callback is invoked only by a read with no
\* write at a version <= V.
C21_BaseValueOutlivesLaterWrites ==
    op.kind = "read" =>
        /\ (WrittenUpTo(op.cell, op.version) = {}
             /\ WrittenAfter(op.cell, op.version) # {})
               => (op.callback_invoked /\ op.outcome = BaseOutcome(op.cell))
        /\ op.callback_invoked => WrittenUpTo(op.cell, op.version) = {}

\* C21 witness: after two writes above it, a read at version 0 returned the
\* callback's value.
C21_Witness ==
    /\ op.kind = "read"
    /\ op.version = 0
    /\ \E u, v \in WrittenAfter(op.cell, op.version) : u # v
    /\ base_value[op.cell].ok
    /\ op.callback_invoked
    /\ op.outcome = Returned(base_value[op.cell].value)

\* The writes of `order`, a sequence of writers [version, value], applied to a
\* cell one after the other.
RECURSIVE ApplyWrites(_, _, _)
ApplyWrites(w, cell, order) ==
    IF order = << >> THEN w
    ELSE ApplyWrites(write(w, cell, Head(order).version, Head(order).value),
                     cell, Tail(order))

\* The sets of writers with one writer for each version of a set of versions.
WriterSets ==
    {{[version |-> v, value |-> values[v]] : v \in bound} :
        <<bound, values>> \in
            {<<b, f>> \in (SUBSET Versions) \X [Versions -> Values] : b # {}}}

\* Every order in which the writers of a set can write.
Interleavings(writers) ==
    {order \in [1..Cardinality(writers) -> writers] :
        \A i, j \in DOMAIN order : i # j => order[i] # order[j]}

\* C22: from every write history (each is left by new or by a write), the
\* writes of writers bound to distinct versions of a cell leave the same
\* history in every order, and then every read(cell, V) has the same outcome
\* whatever the order was.
C22_WritesOfDistinctVersionsCommute ==
    op.kind # "read" =>
        \A cell \in Cells, writers \in WriterSets :
            LET one == CHOOSE order \in Interleavings(writers) : TRUE
                w1 == ApplyWrites(writes, cell, one)
            IN  \A other \in Interleavings(writers) :
                    LET w2 == ApplyWrites(writes, cell, other) IN
                    /\ w1 = w2
                    /\ \A V \in Versions :
                          read(w1, base_value, cell, V)
                              = read(w2, base_value, cell, V)

\* C22 witness: a cell was written at a higher version first and at a lower
\* version with another value after it, and its history is the one the other
\* order leaves.
C22_Witness ==
    /\ op.kind = "write"
    /\ ~op.previous.some
    /\ \E u \in WrittenAfter(op.cell, op.version) :
          /\ written[op.cell][u].value # op.value
          /\ WrittenUpTo(op.cell, MaxVersion) = {op.version, u}
          /\ writes[op.cell]
                = ApplyWrites(NewWrites, op.cell,
                      <<[version |-> op.version, value |-> op.value],
                        [version |-> u, value |-> written[op.cell][u].value]>>)[op.cell]

\* execute_raw panicked.
Halted == pc = "done" /\ "kind" \in DOMAIN result /\ result.kind = "panic"

\* C23: whatever run_or_revert returns with RevertData has no execute trace,
\* and execute_raw never panics; resource accounting panics on every
\* RevertData with remaining resources that comes with an execute trace.
C23_RevertDataExcludesExecuteTrace ==
    /\ call_infos.revert_data.some => ~call_infos.execute_call_info.some
    /\ ~Halted
    /\ \A remaining \in 0..MaxSteps, n_steps \in 0..MaxSteps :
          add_revert_steps(
              [r \in {N_STEPS_RESOURCE} |-> n_steps],
              Some([revert_error |-> error_trace,
                    remaining_resources |-> Some(remaining)]),
              Some([call |-> "execute", n_steps |-> n_steps,
                    inner_call_to_other_contract |-> FALSE]),
              MaxSteps).kind = "panic"

\* C23 witness: a revert whose error reported remaining steps went through
\* resource accounting and ended Ok.
C23_Witness ==
    /\ Revert
    /\ call_infos.revert_data.value.remaining_resources.some
    /\ ~call_infos.execute_call_info.some
    /\ actual_resources # None

\* C24: from the moment execute_raw has built it, and at every later step up
\* to the return, the context holds the transaction's version (0 for an
\* invoke V0, 1 for an invoke V1), its sender (the deployed contract's address
\* for a deploy-account) and its nonce.
C24_ContextCarriesTransactionFields ==
    pc # "start" =>
        /\ context.version = StatedVersion
        /\ context.sender_address = StatedSender
        /\ context.nonce = tx.nonce

\* C24 witness: an invoke V0 with a nonce other than the account's ran to an
\* Ok result.
C24_Witness ==
    /\ pc = "done"
    /\ IsOk(result)
    /\ tx.kind = "Invoke"
    /\ tx.variant = "V0"
    /\ tx.nonce # snapshot.initial.nonce
    /\ context.sender_address = "other_account"

\* The phase an entry of the log belongs to: 1 nonce check, 2 balance check,
\* 3 validate, 4 execute (with the end of its transactional state),
\* 5 resource accounting, 6 fee transfer.
PhaseOf(entry) ==
    CASE "access" \in DOMAIN entry ->
            (CASE entry.access \in {"get_nonce_at", "increment_nonce"} -> 1
               [] entry.access = "get_fee_token_balance" -> 2
               [] OTHER -> 5)
      [] "overlay" \in DOMAIN entry -> 4
      [] OTHER ->
            (CASE entry.call.entry_point_selector = "run_execute" -> 4
               [] entry.call.entry_point_selector = "transfer" -> 6
               [] OTHER -> 3)

PhasesRun == {PhaseOf(calls[i]) : i \in DOMAIN calls}

\* C25: for an invoke or a declare the log never holds an entry of a later
\* phase before one of an earlier phase; a validate or execute call is in it
\* only if the nonce check (version > 0) and the balance check (max_fee # 0)
\* ran before it and passed; and every transfer call comes after the
\* execution's transactional state was committed or aborted.
C25_PhaseOrder ==
    tx.kind \in {"Invoke", "Declare"} =>
        /\ \A i, j \in DOMAIN calls :
              i < j => PhaseOf(calls[i]) <= PhaseOf(calls[j])
        /\ \A i \in DOMAIN calls :
              PhaseOf(calls[i]) \in {3, 4} =>
                  /\ StatedVersion > 0 =>
                        /\ tx.nonce = snapshot.initial.nonce
                        /\ \E j \in 1..(i - 1) : PhaseOf(calls[j]) = 1
                  /\ tx.max_fee # 0 =>
                        /\ ~(snapshot.initial.balance_high = 0
                              /\ snapshot.initial.balance_low < tx.max_fee)
                        /\ \E j \in 1..(i - 1) : PhaseOf(calls[j]) = 2
        /\ \A i \in DOMAIN calls :
              PhaseOf(calls[i]) = 6 =>
                  /\ execution_state # None
                  /\ execution_state.ended # "no"
                  /\ \E j \in 1..(i - 1) : "overlay" \in DOMAIN calls[j]
                  /\ \E j \in 1..(i - 1) :
                        calls[j] = StateAccess("calculate_tx_resources")

\* C25 witness: an invoke went through all six phases.
C25_Witness ==
    /\ pc = "done"
    /\ tx.kind = "Invoke"
    /\ PhasesRun = 1..6

\* C27: an Ok result, reverted or not, has actual_fee <= max_fee and a
\* fee-transfer trace exactly when max_fee # 0; with max_fee # 0 the fee is
\* the one computed from the resources of the result (for a revert: the
\* validate steps plus the steps the failed execution consumed), and the
\* transfer call was made for it.
C27_OkResultFee ==
    (pc = "done" /\ IsOk(result)) =>
        /\ result.value.actual_fee <= tx.max_fee
        /\ result.value.fee_transfer_call_info.some <=> tx.max_fee # 0
        /\ tx.max_fee # 0 =>
              /\ result.value.actual_fee
                    = calculate_tx_fee(result.value.actual_resources)
              /\ \E i \in DOMAIN calls :
                    /\ IsCall(calls[i], "transfer")
                    /\ calls[i].call = TransferOf(result.value.actual_fee)
              /\ result.value.revert_error.some =>
                    result.value.actual_fee
                        = GetOrZero(result.value.actual_resources, N_STEPS_RESOURCE)

\* C27 witness: a reverted transaction with max_fee # 0 paid a fee for the
\* steps of its failed execution.
C27_Witness ==
    /\ Revert
    /\ tx.max_fee # 0
    /\ result.value.fee_transfer_call_info.some
    /\ ExecuteStepsConsumed > 0
    /\ result.value.actual_fee >= ExecuteStepsConsumed

\* The storage of a storage kind, and the cell and the value a well-typed
\* write of the kind names.
StoreOf(storage_type) ==
    CASE storage_type = "ContractStorage" -> "contract_storage_versioned_storage"
      [] storage_type = "ClassHash" -> "class_hash_versioned_storage"
      [] storage_type = "Nonce" -> "nonce_versioned_storage"
      [] storage_type = "CompiledClassHash" -> "compiled_class_hash_versioned_storage"

WrittenCell(storage_type) ==
    CASE storage_type = "ContractStorage" -> <<"address", "key">>
      [] storage_type = "ClassHash" -> "address"
      [] storage_type = "Nonce" -> "address"
      [] storage_type = "CompiledClassHash" -> "class_hash"

WrittenValue(storage_type) ==
    CASE storage_type = "ContractStorage" -> "felt"
      [] storage_type = "ClassHash" -> "class_hash"
      [] storage_type = "Nonce" -> "nonce"
      [] storage_type = "CompiledClassHash" -> "compiled_class_hash"

\* C26: a well-typed write under a storage kind leaves that kind's storage
\* as VersionedStorage.write of the cell, the version and the value leaves it,
\* leaves the three other storages as they were, and every read under
\* another kind, of any cell id at any version, returns what it returned
\* before the write.
C26_WriteTouchesItsKindOnly ==
    [][(dispatch'.kind = "write" /\ ~Mismatched(dispatch')) =>
          LET kind == dispatch'.storage_type IN
          /\ dispatch'.outcome = Returned("unit")
          /\ dispatch'.accessed = {StoreOf(kind)}
          /\ versioned_state'[StoreOf(kind)]
                = write(versioned_state[StoreOf(kind)], WrittenCell(kind),
                        dispatch'.version, WrittenValue(kind))
          /\ \A store \in DOMAIN versioned_state \ {StoreOf(kind)} :
                versioned_state'[store] = versioned_state[store]
          /\ \A other \in StorageTypes \ {kind}, cell_id \in CellIdBoxes,
                version \in VersionIds :
                VersionedState_read(versioned_state', other, cell_id, version)
                    = VersionedState_read(versioned_state, other, cell_id, version)
      ]_dispatcherVars

\* C26 witness: a nonce was written at version 0 for the address whose class
\* hash is written at version 0 and not at version 1; the class hash
\* storage still holds the class hash only.
C26_Witness ==
    /\ dispatch.kind = "write"
    /\ dispatch.storage_type = "Nonce"
    /\ dispatch.version = 0
    /\ dispatch.outcome = Returned("unit")
    /\ versioned_state.nonce_versioned_storage
          = [c \in {"address"} |-> [v \in {0} |-> "nonce"]]
    /\ versioned_state.class_hash_versioned_storage
          = [c \in {"address"} |-> [v \in {0} |-> "class_hash"]]

\* The transaction the selections are made for pays in STRK, as stated: it
\* is no L1 handler and its version is 3 or more.
PaysInStrk == ~has_version.is_l1_handler /\ has_version.version >= 3

\* C28: the fee token address selected is the STRK address when the
\* transaction is no L1 handler and has version >= 3 and the ETH address
\* otherwise, and so is the L1 gas price; where the two tokens differ in
\* address (in price), the STRK one is selected for exactly these
\* transactions; an address and a price selected for the same transaction
\* are those of one token.
C28_FeeTokenByVersion ==
    LET addresses == block_context.fee_token_addresses
        prices == block_context.gas_prices
        address == selected.fee_token_address
        price == selected.l1_gas_price
    IN  /\ address.some =>
              /\ address.value = IF PaysInStrk THEN addresses.strk_fee_token_address
                                  ELSE addresses.eth_fee_token_address
              /\ addresses.strk_fee_token_address # addresses.eth_fee_token_address
                    => (address.value = addresses.strk_fee_token_address <=> PaysInStrk)
        /\ price.some =>
              /\ price.value = IF PaysInStrk THEN prices.strk_l1_gas_price
                                ELSE prices.eth_l1_gas_price
              /\ prices.strk_l1_gas_price # prices.eth_l1_gas_price
                    => (price.value = prices.strk_l1_gas_price <=> PaysInStrk)
        /\ (address.some /\ price.some) =>
              \/ /\ address.value = addresses.strk_fee_token_address
                 /\ price.value = prices.strk_l1_gas_price
              \/ /\ address.value = addresses.eth_fee_token_address
                 /\ price.value = prices.eth_l1_gas_price

\* C28 witness: for an L1 handler of version 3 the ETH address and the ETH
\* price were selected, the STRK ones being different.
C28_Witness ==
    /\ has_version # None
    /\ has_version.is_l1_handler
    /\ has_version.version = 3
    /\ selected.fee_token_address
          = Some(block_context.fee_token_addresses.eth_fee_token_address)
    /\ selected.l1_gas_price = Some(block_context.gas_prices.eth_l1_gas_price)
    /\ block_context.fee_token_addresses.strk_fee_token_address
          # block_context.fee_token_addresses.eth_fee_token_address
    /\ block_context.gas_prices.strk_l1_gas_price
          # block_context.gas_prices.eth_l1_gas_price

====
